---- MODULE Spec2Model ----
(***************************************************************************)
(* Model of the pathfinding grid editor and its two searches (demo2.py).   *)
(*                                                                         *)
(* Cell values are the integers the program uses: 0 free, 1 start, 2 goal, *)
(* -1 obstacle, 3 path, 5 slow terrain.  A grid is a function from the     *)
(* coordinates <<row, col>> of its shape to cell values.                   *)
(***************************************************************************)
EXTENDS Integers, Sequences, FiniteSets, TLC

\* Largest number of cells (rows * cols) of a grid of the editor.
MaxCells == 4

\* Largest number of cells of a grid on which a_star is run step by step.
MaxRunCells == 4

\* Largest number of cells of a grid handed to a search on its own.
MaxSearchCells == 6

VARIABLES
    grid,            \* st.session_state.grid
    grid_shape,      \* st.session_state.grid_shape = <<rows, cols>>
    start_set,       \* st.session_state.start_set
    goal_set,        \* st.session_state.goal_set
    mode,            \* st.session_state.mode
    path_algorithm,  \* st.session_state.path_algorithm
    event,           \* the widget that triggered the current script run
    path,            \* the script run's local `path` (<<>> when no search ran)
    outcome,         \* what the run's button branch did
    erased,          \* whether the last click erased the Start or the Goal,
                     \* or placed it again right after such an erase
    s_grid,          \* argument grid of a search called on its own
    s_start,         \* argument start
    s_goal,          \* argument goal
    s_pc,            \* which search has been called
    s_result,        \* what the search returned, or that it raised
    a_run,           \* a_star run step by step: its locals, the entries in
                     \* the order they were pushed, the entry last popped
    player,          \* the MediaPlayer object of the gesture loop
    hand             \* the gesture loop's locals for the current frame

vars == <<grid, grid_shape, start_set, goal_set, mode, path_algorithm,
          event, path, outcome, erased,
          s_grid, s_start, s_goal, s_pc, s_result, a_run, player, hand>>

editor_vars == <<grid, grid_shape, start_set, goal_set, mode, path_algorithm,
                 event, path, outcome, erased>>

search_vars == <<s_grid, s_start, s_goal, s_pc, s_result>>

gesture_vars == <<player, hand>>

----------------------------------------------------------------------------
\* Grids

None == <<>>

CellsOf(shape) == (0 .. shape[1] - 1) \X (0 .. shape[2] - 1)

ShapesUpTo(n) == {sh \in (1 .. n) \X (1 .. n) : sh[1] * sh[2] <= n}

\* np.zeros((num_rows, num_cols), dtype=int)
zeros(shape) == [c \in CellsOf(shape) |-> 0]

\* Row-major order of coordinates, the order of np.argwhere.
RowMajorLess(a, b) == a[1] < b[1] \/ (a[1] = b[1] /\ a[2] < b[2])

\* tuple(np.argwhere(grid == val)[0]) if any cell holds val, else None
first_cell(g, val) ==
    LET hits == {c \in DOMAIN g : g[c] = val}
    IN  IF hits = {} THEN None
        ELSE CHOOSE c \in hits : \A d \in hits : d = c \/ RowMajorLess(c, d)

----------------------------------------------------------------------------
\* Search helpers

Offsets == << <<-1, 0>>, <<1, 0>>, <<0, -1>>, <<0, 1>> >>

\* get_neighbors taking cells marked Path for blocked as well.
get_neighbors_skipping_path(pos, g) ==
    LET cand == [k \in 1 .. 4 |->
                    <<pos[1] + Offsets[k][1], pos[2] + Offsets[k][2]>>]
        keep(n) == n \in DOMAIN g /\ g[n] # -1 /\ g[n] # 3
    IN  SelectSeq(cand, keep)

get_neighbors(pos, g) ==
    LET cand == [k \in 1 .. 4 |->
                    <<pos[1] + Offsets[k][1], pos[2] + Offsets[k][2]>>]
        keep(n) == n \in DOMAIN g /\ g[n] # -1
    IN  SelectSeq(cand, keep)

RECURSIVE reconstruct_walk_to_start(_, _)
\* The walk that also collects the cell at which the chain ends.
reconstruct_walk_to_start(came_from, current) ==
    IF current \in DOMAIN came_from
    THEN <<current>> \o reconstruct_walk_to_start(came_from, came_from[current])
    ELSE <<current>>

RECURSIVE reconstruct_walk(_, _)
\* The while loop of reconstruct_path: the chain from current, current first.
reconstruct_walk(came_from, current) ==
    IF current \in DOMAIN came_from
    THEN <<current>> \o reconstruct_walk(came_from, came_from[current])
    ELSE <<>>

Reverse(s) == [k \in 1 .. Len(s) |-> s[Len(s) + 1 - k]]

reconstruct_path(came_from, current) ==
    Reverse(reconstruct_walk(came_from, current))

Abs(x) == IF x < 0 THEN -x ELSE x

heuristic(a, b) == Abs(a[1] - b[1]) + Abs(a[2] - b[2])

\* A move cost that ignores slow terrain.
move_cost_flat(g, n) == IF g[n] = 5 THEN 1 ELSE 1

move_cost_of(g, n) == IF g[n] = 5 THEN 5 ELSE 1

\* f with key k set to v (a dict assignment)
Put(f, k, v) == [x \in DOMAIN f \cup {k} |-> IF x = k THEN v ELSE f[x]]

EmptyDict == [x \in {} |-> 0]

----------------------------------------------------------------------------
\* a_star

\* An order on the heap entries that compares f and then the cell, not g.
AStarEntryLessWithoutG(a, b) ==
    \/ a[1] < b[1]
    \/ a[1] = b[1] /\ RowMajorLess(a[3], b[3])

\* Python's order on the heap entries (f, g, (i, j)).
AStarEntryLess(a, b) ==
    \/ a[1] < b[1]
    \/ a[1] = b[1] /\ a[2] < b[2]
    \/ a[1] = b[1] /\ a[2] = b[2] /\ RowMajorLess(a[3], b[3])

\* A pop that takes the greatest entry instead of the least.
astar_heappop_greatest(open_set) ==
    CHOOSE e \in open_set : \A d \in open_set : d = e \/ AStarEntryLess(d, e)

\* heapq.heappop(open_set): the least entry
astar_heappop(open_set) ==
    CHOOSE e \in open_set : \A d \in open_set : d = e \/ AStarEntryLess(e, d)

\* The loop body with the came_from assignment made outside the if.
a_star_relax_always_linking(g, goal, current, s, neighbor) ==
    LET move_cost   == move_cost_of(g, neighbor)
        tentative_g == s.g_score[current] + move_cost
    IN  IF neighbor \notin DOMAIN s.g_score \/ tentative_g < s.g_score[neighbor]
        THEN [open_set  |-> s.open_set \cup
                              {<<tentative_g + heuristic(neighbor, goal),
                                 tentative_g, neighbor>>},
              came_from |-> Put(s.came_from, neighbor, current),
              g_score   |-> Put(s.g_score, neighbor, tentative_g)]
        ELSE [s EXCEPT !.came_from = Put(s.came_from, neighbor, current)]

\* The body of the neighbor loop for one neighbor.
a_star_relax(g, goal, current, s, neighbor) ==
    LET move_cost   == move_cost_of(g, neighbor)
        tentative_g == s.g_score[current] + move_cost
    IN  IF neighbor \notin DOMAIN s.g_score \/ tentative_g < s.g_score[neighbor]
        THEN [open_set  |-> s.open_set \cup
                              {<<tentative_g + heuristic(neighbor, goal),
                                 tentative_g, neighbor>>},
              came_from |-> Put(s.came_from, neighbor, current),
              g_score   |-> Put(s.g_score, neighbor, tentative_g)]
        ELSE s

RECURSIVE a_star_for(_, _, _, _, _, _)
\* The neighbor loop from the k-th neighbor on.
a_star_for(g, goal, current, nbrs, k, s) ==
    IF k > Len(nbrs) THEN s
    ELSE a_star_for(g, goal, current, nbrs, k + 1,
                    a_star_relax(g, goal, current, s, nbrs[k]))

\* One iteration of the while loop that does not return: pop and expand.
a_star_step(g, goal, s) ==
    LET top     == astar_heappop(s.open_set)
        current == top[3]
        popped  == [s EXCEPT !.open_set = @ \ {top}]
    IN  a_star_for(g, goal, current, get_neighbors(current, g), 1, popped)

a_star_init(start, goal) ==
    [open_set  |-> {<<heuristic(start, goal), 0, start>>},
     came_from |-> EmptyDict,
     g_score   |-> Put(EmptyDict, start, 0)]

RECURSIVE a_star_while(_, _, _)
a_star_while(g, goal, s) ==
    IF s.open_set = {} THEN <<>>
    ELSE IF astar_heappop(s.open_set)[3] = goal
         THEN reconstruct_path(s.came_from, goal)
         ELSE a_star_while(g, goal, a_star_step(g, goal, s))

a_star(g, start, goal) == a_star_while(g, goal, a_star_init(start, goal))

----------------------------------------------------------------------------
\* ucs

\* Python's order on the heap entries (cost, (i, j)).
UcsEntryLess(a, b) ==
    \/ a[1] < b[1]
    \/ a[1] = b[1] /\ RowMajorLess(a[2], b[2])

ucs_heappop(pq) ==
    CHOOSE e \in pq : \A d \in pq : d = e \/ UcsEntryLess(e, d)

\* The locals of ucs.  bound tells whether the loop variables neighbor and
\* move_cost have been assigned at all.
ucs_init(start) ==
    [pq        |-> {<<0, start>>},
     visited   |-> {},
     came_from |-> EmptyDict,
     cost      |-> 0,
     current   |-> start,
     bound     |-> FALSE,
     neighbor  |-> start,
     move_cost |-> 0]

\* The neighbor loop of ucs: it only assigns neighbor and move_cost; the
\* push is not inside it.
ucs_for(g, nbrs, s) ==
    IF Len(nbrs) = 0 THEN s
    ELSE [s EXCEPT !.bound     = TRUE,
                   !.neighbor  = nbrs[Len(nbrs)],
                   !.move_cost = move_cost_of(g, nbrs[Len(nbrs)])]

RECURSIVE ucs_while(_, _, _)
\* The while loop: <<TRUE, path>> when it returns from inside the loop,
\* <<FALSE, locals>> when the queue runs empty.
ucs_while(g, goal, s) ==
    IF s.pq = {} THEN <<FALSE, s>>
    ELSE LET top    == ucs_heappop(s.pq)
             popped == [s EXCEPT !.pq = @ \ {top},
                                 !.cost = top[1], !.current = top[2]]
         IN  IF top[2] = goal
             THEN <<TRUE, reconstruct_path(s.came_from, top[2])>>
             ELSE IF top[2] \in s.visited
                  THEN ucs_while(g, goal, popped)
                  ELSE ucs_while(g, goal,
                           ucs_for(g, get_neighbors(top[2], g),
                                   [popped EXCEPT !.visited = @ \cup {top[2]}]))

\* The statements after the while loop.  Reading neighbor when the loop
\* never assigned it raises (UnboundLocalError); otherwise the result is [].
ucs_after(s) ==
    IF ~s.bound THEN [raised |-> TRUE, path |-> <<>>]
    ELSE [raised |-> FALSE, path |-> <<>>]

\* ucs(grid, start, goal): [raised, path]
ucs(g, start, goal) ==
    LET w == ucs_while(g, goal, ucs_init(start))
    IN  IF w[1] THEN [raised |-> FALSE, path |-> w[2]]
        ELSE ucs_after(w[2])

\* a_star never raises; the same shape of result.
a_star_result(g, start, goal) ==
    [raised |-> FALSE, path |-> a_star(g, start, goal)]

\* The values of a_run, player and hand while a_star is not run step by
\* step and the gesture loop is not running.
NoRun == [locals |-> a_star_init(<<0, 0>>, <<0, 0>>), pushed |-> <<>>, popped |-> None]

NoPlayer == [index |-> 0, is_playing |-> FALSE, muted |-> FALSE, volume |-> 0]

NoHand == [fingers |-> None, elapsed |-> FALSE, invoked |-> "none",
           gesture_text |-> "", cooling |-> FALSE, running |-> FALSE]

----------------------------------------------------------------------------
\* The editor (the Streamlit script; one action per script run)

Modes == {"Start", "Goal", "Obstacle", "Erase"}

Shapes == ShapesUpTo(MaxCells)

Range(s) == {s[k] : k \in 1 .. Len(s)}

Ev(kind, cell) == [kind |-> kind, cell |-> cell]

\* click_cell placing a Start or a Goal without testing the flag.
click_cell_unguarded(g, m, ss, gs, c) ==
    IF m = "Start"
    THEN [grid |-> [g EXCEPT ![c] = 1], start_set |-> TRUE, goal_set |-> gs]
    ELSE IF m = "Goal"
    THEN [grid |-> [g EXCEPT ![c] = 2], start_set |-> ss, goal_set |-> TRUE]
    ELSE IF m = "Obstacle"
    THEN IF g[c] = 0 THEN [grid |-> [g EXCEPT ![c] = -1], start_set |-> ss, goal_set |-> gs]
         ELSE [grid |-> g, start_set |-> ss, goal_set |-> gs]
    ELSE [grid      |-> [g EXCEPT ![c] = 0],
          start_set |-> IF g[c] = 1 THEN FALSE ELSE ss,
          goal_set  |-> IF g[c] = 1 THEN gs ELSE IF g[c] = 2 THEN FALSE ELSE gs]

\* click_cell whose Erase branch leaves the flags as they are.
click_cell_erase_keeps_flags(g, m, ss, gs, c) ==
    IF m = "Start"
    THEN IF ~ss THEN [grid |-> [g EXCEPT ![c] = 1], start_set |-> TRUE, goal_set |-> gs]
         ELSE [grid |-> g, start_set |-> ss, goal_set |-> gs]
    ELSE IF m = "Goal"
    THEN IF ~gs THEN [grid |-> [g EXCEPT ![c] = 2], start_set |-> ss, goal_set |-> TRUE]
         ELSE [grid |-> g, start_set |-> ss, goal_set |-> gs]
    ELSE IF m = "Obstacle"
    THEN IF g[c] = 0 THEN [grid |-> [g EXCEPT ![c] = -1], start_set |-> ss, goal_set |-> gs]
         ELSE [grid |-> g, start_set |-> ss, goal_set |-> gs]
    ELSE [grid |-> [g EXCEPT ![c] = 0], start_set |-> ss, goal_set |-> gs]

\* click_cell placing an Obstacle without testing that the cell is Free.
click_cell_obstacle_over_any(g, m, ss, gs, c) ==
    IF m = "Start"
    THEN IF ~ss THEN [grid |-> [g EXCEPT ![c] = 1], start_set |-> TRUE, goal_set |-> gs]
         ELSE [grid |-> g, start_set |-> ss, goal_set |-> gs]
    ELSE IF m = "Goal"
    THEN IF ~gs THEN [grid |-> [g EXCEPT ![c] = 2], start_set |-> ss, goal_set |-> TRUE]
         ELSE [grid |-> g, start_set |-> ss, goal_set |-> gs]
    ELSE IF m = "Obstacle"
    THEN [grid |-> [g EXCEPT ![c] = -1], start_set |-> ss, goal_set |-> gs]
    ELSE [grid      |-> [g EXCEPT ![c] = 0],
          start_set |-> IF g[c] = 1 THEN FALSE ELSE ss,
          goal_set  |-> IF g[c] = 1 THEN gs ELSE IF g[c] = 2 THEN FALSE ELSE gs]

\* click_cell(i, j) with c = <<i, j>>: the grid and the flags it leaves.
click_cell(g, m, ss, gs, c) ==
    IF m = "Start"
    THEN IF ~ss THEN [grid |-> [g EXCEPT ![c] = 1], start_set |-> TRUE, goal_set |-> gs]
         ELSE [grid |-> g, start_set |-> ss, goal_set |-> gs]
    ELSE IF m = "Goal"
    THEN IF ~gs THEN [grid |-> [g EXCEPT ![c] = 2], start_set |-> ss, goal_set |-> TRUE]
         ELSE [grid |-> g, start_set |-> ss, goal_set |-> gs]
    ELSE IF m = "Obstacle"
    THEN IF g[c] = 0 THEN [grid |-> [g EXCEPT ![c] = -1], start_set |-> ss, goal_set |-> gs]
         ELSE [grid |-> g, start_set |-> ss, goal_set |-> gs]
    ELSE \* "Erase"
         [grid      |-> [g EXCEPT ![c] = 0],
          start_set |-> IF g[c] = 1 THEN FALSE ELSE ss,
          goal_set  |-> IF g[c] = 1 THEN gs ELSE IF g[c] = 2 THEN FALSE ELSE gs]

\* The marking loop writing the slow-terrain value 5 instead of 3.
mark_path_as_slow(g, p) ==
    [c \in DOMAIN g |-> IF c \in Range(p) /\ g[c] = 0 THEN 5 ELSE g[c]]

\* The marking loop without its test for a Free cell.
mark_path_over_any(g, p) ==
    [c \in DOMAIN g |-> IF c \in Range(p) THEN 3 ELSE g[c]]

\* for cell in path: if grid[cell] == 0: grid[cell] = 3
mark_path(g, p) ==
    [c \in DOMAIN g |-> IF c \in Range(p) /\ g[c] = 0 THEN 3 ELSE g[c]]

\* `if start and goal:` with start and goal as the script detects them
both_detected(g) == first_cell(g, 1) # None /\ first_cell(g, 2) # None

\* The state the grid_shape block leaves when the selected shape differs.
grid_shape_init(shape) ==
    [grid |-> zeros(shape), grid_shape |-> shape,
     start_set |-> FALSE, goal_set |-> FALSE]

Init ==
    /\ grid_shape \in Shapes
    /\ grid = zeros(grid_shape)
    /\ start_set = FALSE
    /\ goal_set = FALSE
    /\ mode = "Start"
    /\ path_algorithm = "None"
    /\ event = Ev("first", None)
    /\ path = <<>>
    /\ outcome = "none"
    /\ erased = "none"
    /\ s_grid = zeros(<<1, 1>>)
    /\ s_start = <<0, 0>>
    /\ s_goal = <<0, 0>>
    /\ s_pc = "idle"
    /\ s_result = [raised |-> FALSE, path |-> <<>>]
    /\ a_run = NoRun
    /\ player = NoPlayer
    /\ hand = NoHand

\* A run of the script with a new value in one of the number inputs.
SetDimensions(shape) ==
    /\ shape \in Shapes
    /\ shape # grid_shape
    /\ shape[1] = grid_shape[1] \/ shape[2] = grid_shape[2]
    /\ LET r == grid_shape_init(shape)
       IN  /\ grid' = r.grid
           /\ grid_shape' = r.grid_shape
           /\ start_set' = r.start_set
           /\ goal_set' = r.goal_set
    /\ event' = Ev("dims", None)
    /\ path' = <<>>
    /\ outcome' = "none"
    /\ erased' = "none"
    /\ UNCHANGED <<mode, path_algorithm>>
    /\ UNCHANGED <<search_vars, a_run, gesture_vars>>

\* A run of the script with another choice of the radio.
SelectMode(m) ==
    /\ m \in Modes
    /\ m # mode
    /\ mode' = m
    /\ event' = Ev("mode", None)
    /\ path' = <<>>
    /\ outcome' = "none"
    /\ UNCHANGED <<grid, grid_shape, start_set, goal_set, path_algorithm, erased>>
    /\ UNCHANGED <<search_vars, a_run, gesture_vars>>

\* A click on the button of cell c: the callback, then the script run.
ClickCell(c) ==
    /\ c \in DOMAIN grid
    /\ LET r == click_cell(grid, mode, start_set, goal_set, c)
       IN  /\ grid' = r.grid
           /\ start_set' = r.start_set
           /\ goal_set' = r.goal_set
    /\ erased' = IF mode = "Erase" /\ grid[c] = 1 THEN "start"
                 ELSE IF mode = "Erase" /\ grid[c] = 2 THEN "goal"
                 ELSE IF mode = "Start" /\ erased = "start" THEN "start_again"
                 ELSE IF mode = "Goal" /\ erased = "goal" THEN "goal_again"
                 ELSE "none"
    /\ event' = Ev("click", c)
    /\ path' = <<>>
    /\ outcome' = "none"
    /\ UNCHANGED <<grid_shape, mode, path_algorithm>>
    /\ UNCHANGED <<search_vars, a_run, gesture_vars>>

\* The button branch with the record of the algorithm made outside the if.
run_branch_always_records(g, alg, res, pa) ==
    IF ~both_detected(g)
    THEN [grid |-> g, path_algorithm |-> alg, path |-> <<>>, outcome |-> "warning"]
    ELSE IF res.raised
    THEN [grid |-> g, path_algorithm |-> pa, path |-> <<>>, outcome |-> "error"]
    ELSE [grid |-> mark_path(g, res.path), path_algorithm |-> alg,
          path |-> res.path, outcome |-> "searched"]

\* The branch of a search button, given the search's result on grid.copy().
run_branch(g, alg, res, pa) ==
    IF ~both_detected(g)
    THEN [grid |-> g, path_algorithm |-> pa, path |-> <<>>, outcome |-> "warning"]
    ELSE IF res.raised
    THEN [grid |-> g, path_algorithm |-> pa, path |-> <<>>, outcome |-> "error"]
    ELSE [grid |-> mark_path(g, res.path), path_algorithm |-> alg,
          path |-> res.path, outcome |-> "searched"]

\* The result of the search a button starts (not evaluated without both cells).
searched(g, alg) ==
    IF ~both_detected(g) THEN [raised |-> FALSE, path |-> <<>>]
    ELSE IF alg = "A*" THEN a_star_result(g, first_cell(g, 1), first_cell(g, 2))
    ELSE ucs(g, first_cell(g, 1), first_cell(g, 2))

a_star_button(g, pa) == run_branch(g, "A*", searched(g, "A*"), pa)

ucs_button(g, pa) == run_branch(g, "UCS", searched(g, "UCS"), pa)

AStarButton ==
    /\ LET r == a_star_button(grid, path_algorithm)
       IN  /\ grid' = r.grid
           /\ path_algorithm' = r.path_algorithm
           /\ path' = r.path
           /\ outcome' = r.outcome
    /\ event' = Ev("astar", None)
    /\ erased' = "none"
    /\ UNCHANGED <<grid_shape, start_set, goal_set, mode>>
    /\ UNCHANGED <<search_vars, a_run, gesture_vars>>

UcsButton ==
    /\ LET r == ucs_button(grid, path_algorithm)
       IN  /\ grid' = r.grid
           /\ path_algorithm' = r.path_algorithm
           /\ path' = r.path
           /\ outcome' = r.outcome
    /\ event' = Ev("ucs", None)
    /\ erased' = "none"
    /\ UNCHANGED <<grid_shape, start_set, goal_set, mode>>
    /\ UNCHANGED <<search_vars, a_run, gesture_vars>>

\* The Reset Grid branch without its two flag assignments.
ResetButtonKeepingFlags ==
    /\ grid' = zeros(grid_shape)
    /\ path_algorithm' = "None"
    /\ event' = Ev("reset", None)
    /\ path' = <<>>
    /\ outcome' = "none"
    /\ erased' = "none"
    /\ UNCHANGED <<grid_shape, mode, start_set, goal_set>>
    /\ UNCHANGED <<search_vars, a_run, gesture_vars>>

ResetButton ==
    /\ grid' = zeros(grid_shape)
    /\ start_set' = FALSE
    /\ goal_set' = FALSE
    /\ path_algorithm' = "None"
    /\ event' = Ev("reset", None)
    /\ path' = <<>>
    /\ outcome' = "none"
    /\ erased' = "none"
    /\ UNCHANGED <<grid_shape, mode>>
    /\ UNCHANGED <<search_vars, a_run, gesture_vars>>

Next ==
    \/ \E shape \in Shapes : SetDimensions(shape)
    \/ \E m \in Modes : SelectMode(m)
    \/ \E c \in DOMAIN grid : ClickCell(c)
    \/ AStarButton
    \/ UcsButton
    \/ ResetButton

Spec == Init /\ [][Next]_vars

----------------------------------------------------------------------------
\* The searches called on their own, on grids of free, obstacle and
\* slow-terrain cells.

SearchShapes == ShapesUpTo(MaxSearchCells)

SearchValues == {0, -1, 5}

InitSearch ==
    /\ \E shape \in SearchShapes : s_grid \in [CellsOf(shape) -> SearchValues]
    /\ s_start \in {c \in DOMAIN s_grid : s_grid[c] # -1}
    /\ s_goal \in {c \in DOMAIN s_grid : s_grid[c] # -1}
    /\ s_pc = "ready"
    /\ s_result = [raised |-> FALSE, path |-> <<>>]
    /\ grid_shape = <<1, 1>>
    /\ grid = zeros(grid_shape)
    /\ start_set = FALSE
    /\ goal_set = FALSE
    /\ mode = "Start"
    /\ path_algorithm = "None"
    /\ event = Ev("first", None)
    /\ path = <<>>
    /\ outcome = "none"
    /\ erased = "none"
    /\ a_run = NoRun
    /\ player = NoPlayer
    /\ hand = NoHand

CallAStar ==
    /\ s_pc = "ready"
    /\ s_result' = a_star_result(s_grid, s_start, s_goal)
    /\ s_pc' = "a_star"
    /\ UNCHANGED <<s_grid, s_start, s_goal>>
    /\ UNCHANGED <<editor_vars, a_run, gesture_vars>>

CallUcs ==
    /\ s_pc = "ready"
    /\ s_result' = ucs(s_grid, s_start, s_goal)
    /\ s_pc' = "ucs"
    /\ UNCHANGED <<s_grid, s_start, s_goal>>
    /\ UNCHANGED <<editor_vars, a_run, gesture_vars>>

NextSearch ==
    \/ CallAStar
    \/ CallUcs

SpecSearch == InitSearch /\ [][NextSearch]_vars

----------------------------------------------------------------------------
\* a_star run one iteration of its while loop at a time

RunShapes == ShapesUpTo(MaxRunCells)

RECURSIVE a_star_pushes(_, _, _, _, _, _)
\* The entries the neighbor loop pushes from the k-th neighbor on, in order.
a_star_pushes(g, goal, current, nbrs, k, s) ==
    IF k > Len(nbrs) THEN <<>>
    ELSE LET t == a_star_relax(g, goal, current, s, nbrs[k])
         IN  (IF t.open_set # s.open_set
              THEN <<CHOOSE e \in t.open_set : e \notin s.open_set>>
              ELSE <<>>)
             \o a_star_pushes(g, goal, current, nbrs, k + 1, t)

InitAStar ==
    /\ \E shape \in RunShapes : s_grid \in [CellsOf(shape) -> SearchValues]
    /\ s_start \in {c \in DOMAIN s_grid : s_grid[c] # -1}
    /\ s_goal \in {c \in DOMAIN s_grid : s_grid[c] # -1}
    /\ s_pc = "running"
    /\ s_result = [raised |-> FALSE, path |-> <<>>]
    /\ a_run = [locals |-> a_star_init(s_start, s_goal),
                pushed |-> <<<<heuristic(s_start, s_goal), 0, s_start>>>>,
                popped |-> None]
    /\ grid_shape = <<1, 1>>
    /\ grid = zeros(grid_shape)
    /\ start_set = FALSE
    /\ goal_set = FALSE
    /\ mode = "Start"
    /\ path_algorithm = "None"
    /\ event = Ev("first", None)
    /\ path = <<>>
    /\ outcome = "none"
    /\ erased = "none"
    /\ player = NoPlayer
    /\ hand = NoHand

\* `while open_set:` fails: return []
AStarReturnEmpty ==
    /\ s_pc = "running"
    /\ a_run.locals.open_set = {}
    /\ s_result' = [raised |-> FALSE, path |-> <<>>]
    /\ s_pc' = "returned"
    /\ UNCHANGED <<s_grid, s_start, s_goal, a_run>>
    /\ UNCHANGED <<editor_vars, gesture_vars>>

\* The popped cell is the goal: return reconstruct_path(came_from, current)
AStarReturnPath ==
    /\ s_pc = "running"
    /\ a_run.locals.open_set # {}
    /\ LET top == astar_heappop(a_run.locals.open_set)
       IN  /\ top[3] = s_goal
           /\ a_run' = [a_run EXCEPT !.locals.open_set = @ \ {top},
                                     !.popped = top]
           /\ s_result' = [raised |-> FALSE,
                           path |-> reconstruct_path(a_run.locals.came_from, top[3])]
    /\ s_pc' = "returned"
    /\ UNCHANGED <<s_grid, s_start, s_goal>>
    /\ UNCHANGED <<editor_vars, gesture_vars>>

\* The popped cell is not the goal: the neighbor loop
AStarExpand ==
    /\ s_pc = "running"
    /\ a_run.locals.open_set # {}
    /\ LET top    == astar_heappop(a_run.locals.open_set)
           popped == [a_run.locals EXCEPT !.open_set = @ \ {top}]
       IN  /\ top[3] # s_goal
           /\ a_run' = [locals |-> a_star_step(s_grid, s_goal, a_run.locals),
                        pushed |-> a_run.pushed \o
                                   a_star_pushes(s_grid, s_goal, top[3],
                                                 get_neighbors(top[3], s_grid),
                                                 1, popped),
                        popped |-> top]
    /\ UNCHANGED <<s_grid, s_start, s_goal, s_pc, s_result>>
    /\ UNCHANGED <<editor_vars, gesture_vars>>

NextAStar ==
    \/ AStarReturnEmpty
    \/ AStarReturnPath
    \/ AStarExpand

\* The loop runs on its own: an iteration that can be taken is taken.
SpecAStar == InitAStar /\ [][NextAStar]_vars /\ WF_vars(NextAStar)

----------------------------------------------------------------------------
\* The gesture-controlled media player (Project.py; one action per frame of
\* the main loop).  player holds the MediaPlayer object's fields and the
\* volume of its vlc player; hand holds what the last frame did: the
\* fingers of the last hand it processed (None without a hand), whether
\* time_since_last > gesture_cooldown held for that hand, the MediaPlayer
\* method called for it, the frame's gesture_text, whether a recognised
\* gesture's cooldown is still running, and whether the loop is running.

\* Largest number of hands detected in one frame.
MaxHands == 2

media_files == <<"song1.mp3", "song2.mp3", "song3.mp3">>

\* The volume change of volume_up / volume_down and the top of the range.
VolumeStep == 10

VolumeMax == 100

\* Volumes a fresh vlc player may report: the top of the range and a value
\* that is no multiple of the step.
InitVolumes == {VolumeStep - 1, VolumeMax}

min(a, b) == IF a < b THEN a ELSE b

max(a, b) == IF a > b THEN a ELSE b

MediaPlayer_init(v) ==
    [index |-> 0, is_playing |-> FALSE, muted |-> FALSE, volume |-> v]

play(p) == IF ~p.is_playing THEN [p EXCEPT !.is_playing = TRUE] ELSE p

pause(p) == IF p.is_playing THEN [p EXCEPT !.is_playing = FALSE] ELSE p

play_pause(p) == IF p.is_playing THEN pause(p) ELSE play(p)

stop(p) == [p EXCEPT !.is_playing = FALSE]

\* v is the volume of the vlc player made for the new track.
next_track(p, v) ==
    play([stop(p) EXCEPT !.index = (p.index + 1) % Len(media_files),
                         !.volume = v])

prev_track(p, v) ==
    play([stop(p) EXCEPT !.index = (p.index - 1) % Len(media_files),
                         !.volume = v])

volume_up(p) == [p EXCEPT !.volume = min(p.volume + VolumeStep, VolumeMax)]

volume_down(p) == [p EXCEPT !.volume = max(p.volume - VolumeStep, 0)]

mute_unmute(p) == [p EXCEPT !.muted = ~p.muted]

\* The finger lists a frame may see: the four the loop names and one other.
FingerLists ==
    {<<1, 1, 1, 1, 1>>, <<1, 0, 0, 0, 0>>, <<0, 0, 0, 0, 0>>,
     <<0, 1, 0, 0, 0>>, <<0, 1, 1, 0, 0>>}

NamedFingerLists ==
    {<<1, 1, 1, 1, 1>>, <<1, 0, 0, 0, 0>>, <<0, 0, 0, 0, 0>>, <<0, 1, 0, 0, 0>>}

\* One detected hand: fingers_up's list and what swipe_detector.update
\* returns for its centre (the detector is asked only for unnamed lists).
HandInputs ==
    {[fingers |-> fs, swipe |-> "None"] : fs \in FingerLists}
    \cup {[fingers |-> fs, swipe |-> sw] :
              fs \in FingerLists \ NamedFingerLists, sw \in {"left", "right"}}

HandSeqs == UNION {[1..n -> HandInputs] : n \in 0..MaxHands}

\* A branch of the loop that recognises a gesture: the player after the
\* call, the text, and last_gesture_time = current_time.
recognise(f, p, text, method) ==
    [f EXCEPT !.player = p, !.gesture_text = text,
              !.invoked = method, !.recognised = TRUE]

\* One pass of `for hand_landmarks in results.multi_hand_landmarks`.
\* The cooldown has run out for this hand when it had run out as the frame
\* began and no earlier hand of the frame set last_gesture_time.
process_hand(f, h, v) ==
    LET elapsed == f.may_elapse /\ ~f.recognised
        g == [f EXCEPT !.fingers = h.fingers, !.elapsed = elapsed,
                       !.invoked = "none"]
    IN  IF ~elapsed THEN g
        ELSE IF h.fingers = <<1, 1, 1, 1, 1>>
             THEN recognise(g, play_pause(f.player), "Play/Pause", "play_pause")
        ELSE IF h.fingers = <<1, 0, 0, 0, 0>>
             THEN recognise(g, volume_up(f.player), "Volume Up", "volume_up")
        ELSE IF h.fingers = <<0, 0, 0, 0, 0>>
             THEN recognise(g, volume_down(f.player), "Volume Down", "volume_down")
        ELSE IF h.fingers = <<0, 1, 0, 0, 0>>
             THEN recognise(g, mute_unmute(f.player), "Mute/Unmute", "mute_unmute")
        ELSE IF h.fingers = <<0, 0, 0, 0, 0>>
             THEN recognise(g, stop(f.player), "Stop", "stop")
        ELSE IF h.swipe = "left"
             THEN recognise(g, prev_track(f.player, v), "Previous Track", "prev_track")
        ELSE IF h.swipe = "right"
             THEN recognise(g, next_track(f.player, v), "Next Track", "next_track")
        ELSE g

RECURSIVE process_hands(_, _, _, _)
process_hands(f, hands, k, v) ==
    IF k > Len(hands) THEN f
    ELSE process_hands(process_hand(f, hands[k], v), hands, k + 1, v)

InitGesture ==
    /\ \E v \in InitVolumes : player = MediaPlayer_init(v)
    /\ hand = [NoHand EXCEPT !.running = TRUE]
    /\ grid_shape = <<1, 1>>
    /\ grid = zeros(grid_shape)
    /\ start_set = FALSE
    /\ goal_set = FALSE
    /\ mode = "Start"
    /\ path_algorithm = "None"
    /\ event = Ev("first", None)
    /\ path = <<>>
    /\ outcome = "none"
    /\ erased = "none"
    /\ s_grid = zeros(<<1, 1>>)
    /\ s_start = <<0, 0>>
    /\ s_goal = <<0, 0>>
    /\ s_pc = "idle"
    /\ s_result = [raised |-> FALSE, path |-> <<>>]
    /\ a_run = NoRun

\* A frame with hands.  waited: the cooldown of the last recognised
\* gesture, if one is running, has run out by this frame.
Frame ==
    /\ hand.running
    /\ \E hands \in HandSeqs \ {<<>>}, waited \in BOOLEAN, v \in InitVolumes :
          LET f0 == [player |-> player, may_elapse |-> ~hand.cooling \/ waited,
                     recognised |-> FALSE, gesture_text |-> "",
                     fingers |-> None, elapsed |-> FALSE, invoked |-> "none"]
              f  == process_hands(f0, hands, 1, v)
          IN  /\ player' = f.player
              /\ hand' = [fingers |-> f.fingers, elapsed |-> f.elapsed,
                          invoked |-> f.invoked, gesture_text |-> f.gesture_text,
                          cooling |-> f.recognised \/ ~f0.may_elapse,
                          running |-> TRUE]
    /\ UNCHANGED <<editor_vars, search_vars, a_run>>

\* A frame without hands: only the swipe detector is cleared.
FrameNoHands ==
    /\ hand.running
    /\ \E waited \in BOOLEAN :
          hand' = [fingers |-> None, elapsed |-> FALSE, invoked |-> "none",
                   gesture_text |-> "", cooling |-> hand.cooling /\ ~waited,
                   running |-> TRUE]
    /\ UNCHANGED <<player, editor_vars, search_vars, a_run>>

\* The loop breaks (no frame, or ESC): the final player.stop().
Quit ==
    /\ hand.running
    /\ player' = stop(player)
    /\ hand' = [hand EXCEPT !.invoked = "stop", !.running = FALSE]
    /\ UNCHANGED <<editor_vars, search_vars, a_run>>

NextGesture ==
    \/ Frame
    \/ FrameNoHands
    \/ Quit

SpecGesture == InitGesture /\ [][NextGesture]_vars

----------------------------------------------------------------------------
\* What the claims speak of, stated without the searches' own helpers

Runs == {"astar", "ucs"}

CellsHolding(g, v) == {c \in DOMAIN g : g[c] = v}

\* The cost of entering cell c: 5 for slow terrain, 1 otherwise.
EntryCost(g, c) == IF g[c] = 5 THEN 5 ELSE 1

RECURSIVE PathCostFrom(_, _, _)
PathCostFrom(g, p, k) ==
    IF k > Len(p) THEN 0 ELSE EntryCost(g, p[k]) + PathCostFrom(g, p, k + 1)

\* Total cost of a path: the sum of the costs of the cells it enters.
PathCost(g, p) == PathCostFrom(g, p, 1)

FourAdjacent(a, b) ==
    \/ a[1] = b[1] /\ (a[2] = b[2] + 1 \/ b[2] = a[2] + 1)
    \/ a[2] = b[2] /\ (a[1] = b[1] + 1 \/ b[1] = a[1] + 1)

\* The cells of the grid that are 4-adjacent to c.
AdjacentCells(g, c) ==
    {<<c[1] - 1, c[2]>>, <<c[1] + 1, c[2]>>,
     <<c[1], c[2] - 1>>, <<c[1], c[2] + 1>>} \cap DOMAIN g

\* More than the cost of any route of the grid.
Unreached(g) == 5 * Cardinality(DOMAIN g) + 1

Least(S) == CHOOSE x \in S : \A y \in S : x <= y

RECURSIVE CostsAfter(_, _, _, _)
\* Least costs from start over routes of at most n more steps than D covers
\* (Bellman-Ford; a round that changes nothing is the last).
CostsAfter(g, start, D, n) ==
    LET E == [c \in DOMAIN g |->
                IF c = start THEN 0
                ELSE IF g[c] = -1 THEN Unreached(g)
                ELSE Least({D[c]} \cup
                           {D[d] + EntryCost(g, c) : d \in AdjacentCells(g, c)})]
    IN  IF n = 0 \/ E = D THEN D ELSE CostsAfter(g, start, E, n - 1)

\* The minimum total cost over all routes from start to goal through
\* non-obstacle cells, Unreached(g) when there is none.
MinCost(g, start, goal) ==
    CostsAfter(g, start,
               [c \in DOMAIN g |-> IF c = start THEN 0 ELSE Unreached(g)],
               Cardinality(DOMAIN g))[goal]

Reachable(g, start, goal) == MinCost(g, start, goal) < Unreached(g)

\* p is a route from start to goal: it starts next to start, moves by
\* 4-adjacent steps over non-obstacle cells of the grid and ends at goal.
IsRoute(g, start, goal, p) ==
    /\ Len(p) > 0
    /\ FourAdjacent(start, p[1])
    /\ \A k \in 1 .. Len(p) : p[k] \in DOMAIN g /\ g[p[k]] # -1
    /\ \A k \in 1 .. Len(p) - 1 : FourAdjacent(p[k], p[k + 1])
    /\ p[Len(p)] = goal

----------------------------------------------------------------------------
\* C1: after any sequence of editor commands the grid holds at most one
\* Start cell and at most one Goal cell.
AtMostOneStartAndGoal ==
    /\ Cardinality(CellsHolding(grid, 1)) <= 1
    /\ Cardinality(CellsHolding(grid, 2)) <= 1

\* A Start-mode click on a cell while another cell holds the Start (and a
\* Goal is on the grid): the click placed no second Start.
SecondStartClickSeen ==
    /\ event.kind = "click"
    /\ mode = "Start"
    /\ grid[event.cell] # 1
    /\ CellsHolding(grid, 1) # {}
    /\ CellsHolding(grid, 2) # {}

\* C2: on a grid of free, obstacle and slow-terrain cells with distinct
\* start and goal and the goal reachable, a_star returns a route whose total
\* cost is the minimum over all routes from start to goal.
AStarReturnsCheapestRoute ==
    (s_pc = "a_star" /\ s_start # s_goal)
        => LET least == MinCost(s_grid, s_start, s_goal)
           IN  least < Unreached(s_grid)
                 => /\ ~s_result.raised
                    /\ IsRoute(s_grid, s_start, s_goal, s_result.path)
                    /\ PathCost(s_grid, s_result.path) = least

\* a_star went around slow terrain: on a grid with slow cells and no
\* obstacle it returned a route longer than the Manhattan distance that
\* enters no slow cell.
AStarDetourSeen ==
    /\ s_pc = "a_star"
    /\ CellsHolding(s_grid, -1) = {}
    /\ CellsHolding(s_grid, 5) # {}
    /\ Len(s_result.path) > heuristic(s_start, s_goal)
    /\ \A k \in 1 .. Len(s_result.path) : s_grid[s_result.path[k]] # 5

\* C3: with distinct start and goal and the goal reachable, ucs returns a
\* non-empty path that ends at the goal and whose total cost is the minimum.
UcsReturnsCheapestRoute ==
    (s_pc = "ucs" /\ s_start # s_goal /\ Reachable(s_grid, s_start, s_goal))
        => /\ ~s_result.raised
           /\ Len(s_result.path) > 0
           /\ s_result.path[Len(s_result.path)] = s_goal
           /\ PathCost(s_grid, s_result.path) = MinCost(s_grid, s_start, s_goal)

\* C4: whenever the goal is not reachable from the start, ucs and a_star
\* both return the empty path and neither raises.
UnreachableGivesEmptyPath ==
    (s_pc \in {"a_star", "ucs"} /\ ~Reachable(s_grid, s_start, s_goal))
        => /\ ~s_result.raised
           /\ s_result.path = <<>>

\* C5: in every reachable state where the start or the goal is not set,
\* pressing A* or UCS only warns: no cell, neither flag and not the recorded
\* algorithm changes.
RunWithoutStartOrGoalOnlyWarns ==
    [][(/\ event'.kind \in Runs
        /\ \/ ~start_set
           \/ ~goal_set
           \/ CellsHolding(grid, 1) = {}
           \/ CellsHolding(grid, 2) = {})
         => /\ outcome' = "warning"
            /\ grid' = grid
            /\ start_set' = start_set
            /\ goal_set' = goal_set
            /\ path_algorithm' = path_algorithm]_vars

\* A press that only warned, in a state that keeps the marks and the record
\* of an earlier successful run.
WarningAfterEarlierRunSeen ==
    /\ event.kind \in Runs
    /\ outcome = "warning"
    /\ path_algorithm # "None"
    /\ CellsHolding(grid, 3) # {}

\* C6: an Erase click on the cell holding Start (Goal) frees the cell and
\* clears start_set (goal_set), and the next click, made in Start (Goal)
\* mode, is applied: the clicked cell becomes Start (Goal) and the flag is
\* set again.
EraseThenPlaceAgain ==
    [][event'.kind = "click"
         => /\ (mode = "Erase" /\ grid[event'.cell] = 1)
                  => grid'[event'.cell] = 0 /\ ~start_set'
            /\ (mode = "Erase" /\ grid[event'.cell] = 2)
                  => grid'[event'.cell] = 0 /\ ~goal_set'
            /\ (mode = "Start" /\ erased = "start")
                  => grid'[event'.cell] = 1 /\ start_set'
            /\ (mode = "Goal" /\ erased = "goal")
                  => grid'[event'.cell] = 2 /\ goal_set']_vars

\* The Start has been erased and replaced by the very next click.
StartErasedAndPlacedAgainSeen ==
    /\ event.kind = "click"
    /\ mode = "Start"
    /\ erased = "start_again"
    /\ grid[event.cell] = 1
    /\ start_set

\* C7: a successful A* or UCS run changes only cells that lie on the
\* returned path and were Free, and only to Path; every other cell and both
\* flags stay as they were.
SuccessfulRunOnlyMarksFreePathCells ==
    [][(event'.kind \in Runs /\ outcome' = "searched")
         => /\ DOMAIN grid' = DOMAIN grid
            /\ \A c \in DOMAIN grid :
                  grid'[c] # grid[c]
                     => c \in Range(path') /\ grid[c] = 0 /\ grid'[c] = 3
            /\ start_set' = start_set
            /\ goal_set' = goal_set]_vars

\* A run returned a path that ends on the Goal cell and crosses a cell now
\* marked Path, on a grid with an obstacle.
PathMarkedAroundObstacleSeen ==
    /\ event.kind \in Runs
    /\ outcome = "searched"
    /\ Len(path) > 1
    /\ grid[path[Len(path)]] = 2
    /\ \E k \in 1 .. Len(path) : grid[path[k]] = 3
    /\ CellsHolding(grid, -1) # {}

\* C8: pressing the same button again right after a run returns the same
\* path, in the same order, and leaves the grid as the first run left it.
RepeatedRunSamePath ==
    (event.kind \in Runs /\ outcome = "searched")
        => LET again == IF event.kind = "astar"
                        THEN a_star_button(grid, path_algorithm)
                        ELSE ucs_button(grid, path_algorithm)
           IN  /\ again.outcome = "searched"
               /\ again.path = path
               /\ again.grid = grid

\* An A* run that marked at least one Free cell of its path as Path.
AStarRunWithMarksSeen ==
    /\ event.kind = "astar"
    /\ outcome = "searched"
    /\ \E k \in 1 .. Len(path) : grid[path[k]] = 3

\* C9: pressing A* or UCS searches and records the algorithm exactly when
\* start_set and goal_set are both true; otherwise it warns and does not
\* search.
RunSearchesIffBothFlags ==
    [][event'.kind \in Runs
         => IF start_set /\ goal_set
            THEN /\ outcome' = "searched"
                 /\ path_algorithm' = IF event'.kind = "astar" THEN "A*" ELSE "UCS"
            ELSE outcome' = "warning"]_vars

\* C10: whenever the selected dimensions differ from the grid's, the editor
\* is fully reset: every cell Free, both flags false, no recorded algorithm.
DimensionChangeResetsAll ==
    [][grid_shape' # grid_shape
         => /\ grid' = [c \in CellsOf(grid_shape') |-> 0]
            /\ ~start_set'
            /\ ~goal_set'
            /\ path_algorithm' = "None"]_vars

\* C11: Reset Grid yields a grid of the current dimensions with every cell
\* Free, both flags false and no recorded algorithm, so that a Start and
\* then a Goal can be placed again on any two cells.
ResetClearsEverything ==
    event.kind = "reset"
        => /\ grid = [c \in CellsOf(grid_shape) |-> 0]
           /\ ~start_set
           /\ ~goal_set
           /\ path_algorithm = "None"
           /\ \A c \in DOMAIN grid :
                 LET a == click_cell(grid, "Start", start_set, goal_set, c)
                 IN  /\ a.grid[c] = 1
                     /\ a.start_set
                     /\ \A d \in DOMAIN grid \ {c} :
                           LET b == click_cell(a.grid, "Goal", a.start_set,
                                               a.goal_set, d)
                           IN  b.grid[c] = 1 /\ b.grid[d] = 2 /\ b.goal_set

\* Reset Grid has been pressed on a grid of several cells, after the mode
\* had been changed from the initial one.
ResetPressedSeen ==
    /\ event.kind = "reset"
    /\ mode = "Erase"
    /\ Cardinality(DOMAIN grid) > 1

\* C12: a rejected placement changes nothing: a Start-mode click while
\* start_set is true, a Goal-mode click while goal_set is true and an
\* Obstacle-mode click on a cell that is not Free leave every cell and both
\* flags unchanged.
RejectedPlacementChangesNothing ==
    [][(/\ event'.kind = "click"
        /\ \/ mode = "Start" /\ start_set
           \/ mode = "Goal" /\ goal_set
           \/ mode = "Obstacle" /\ grid[event'.cell] # 0)
         => /\ grid' = grid
            /\ start_set' = start_set
            /\ goal_set' = goal_set]_vars

\* An Obstacle-mode click on a cell marked Path, which it left as it was.
ObstacleClickOnPathCellSeen ==
    /\ event.kind = "click"
    /\ mode = "Obstacle"
    /\ grid[event.cell] = 3

\* C13: every non-empty path returned by a_star or ucs is a valid route: it
\* does not contain the start, its first cell is 4-adjacent to the start,
\* consecutive cells are 4-adjacent, its last cell is the goal and every
\* cell is inside the grid and not an Obstacle.
ReturnedPathIsValidRoute ==
    (s_pc \in {"a_star", "ucs"} /\ ~s_result.raised /\ s_result.path # <<>>)
        => /\ IsRoute(s_grid, s_start, s_goal, s_result.path)
           /\ \A k \in 1 .. Len(s_result.path) : s_result.path[k] # s_start

\* a_star returned a path of at least three cells that changes both row
\* and column, on a grid with an obstacle.
BentPathAroundObstacleSeen ==
    /\ s_pc = "a_star"
    /\ Len(s_result.path) >= 3
    /\ CellsHolding(s_grid, -1) # {}
    /\ s_start[1] # s_goal[1]
    /\ s_start[2] # s_goal[2]

\* The number of steps between two cells along rows and columns.
ManhattanDistance(a, b) ==
    (IF a[1] < b[1] THEN b[1] - a[1] ELSE a[1] - b[1])
      + (IF a[2] < b[2] THEN b[2] - a[2] ELSE a[2] - b[2])

\* C14: on a grid with no Obstacle and no SlowTerrain cell and distinct
\* start and goal, a_star returns a path of exactly
\* |start.row - goal.row| + |start.col - goal.col| cells.
AStarPathLengthIsManhattan ==
    (/\ s_pc = "a_star"
     /\ s_start # s_goal
     /\ \A c \in DOMAIN s_grid : s_grid[c] = 0)
        => Len(s_result.path) = ManhattanDistance(s_start, s_goal)

\* a_star has run on an all-Free grid between two cells that differ in row
\* and in column by three steps in all.
OpenGridDiagonalRunSeen ==
    /\ s_pc = "a_star"
    /\ \A c \in DOMAIN s_grid : s_grid[c] = 0
    /\ s_start[1] # s_goal[1]
    /\ ManhattanDistance(s_start, s_goal) = 3
    /\ Len(s_result.path) = 3

\* C17: whenever path_algorithm is "A*" or "UCS" (so the message "Path
\* found using ... algorithm" is shown), the run of that algorithm that has
\* just recorded it returned a non-empty path from start to goal.
RecordedAlgorithmFoundPath ==
    (/\ path_algorithm \in {"A*", "UCS"}
     /\ event.kind \in Runs
     /\ outcome = "searched")
        => IsRoute(grid, first_cell(grid, 1), first_cell(grid, 2), path)

\* C19: in every reachable editor state the flags agree with the grid:
\* start_set is true exactly when some cell holds Start, goal_set exactly
\* when some cell holds Goal.
FlagsAgreeWithGrid ==
    /\ start_set <=> CellsHolding(grid, 1) # {}
    /\ goal_set <=> CellsHolding(grid, 2) # {}

\* The cell values the editor writes: Free, Start, Goal, Obstacle, Path.
EditorValues == {0, 1, 2, -1, 3}

\* C20: in every state reachable through the editor's commands every cell
\* holds Free (0), Start (1), Goal (2), Obstacle (-1) or Path (3), never
\* SlowTerrain (5), so every step of a path found from the editor costs 1.
OnlyEditorValuesOnGrid ==
    /\ \A c \in DOMAIN grid : grid[c] \in EditorValues
    /\ PathCost(grid, path) = Len(path)

\* Start, Goal, Obstacle and Path are all on the grid after an A* run whose
\* path has two cells or more.
AllWrittenValuesSeen ==
    /\ event.kind = "astar"
    /\ Len(path) >= 2
    /\ \A v \in {1, 2, -1, 3} : CellsHolding(grid, v) # {}

\* The place of entry e in the order of the pushes.
PushIndex(e) == CHOOSE i \in 1 .. Len(a_run.pushed) : a_run.pushed[i] = e

\* C15 as stated: whenever several open-set entries share the lowest f, the
\* one inserted earliest is popped next.
TiesPoppedInInsertionOrder ==
    [][a_run' # a_run
         => \A d \in a_run.locals.open_set :
               d[1] = a_run'.popped[1]
                  => PushIndex(a_run'.popped) <= PushIndex(d)]_vars

\* C15 amended: the popped entry has the lowest f; among the entries with
\* that f it has the lowest g; among those, the cell that comes first by
\* row and then column.  The order of insertion plays no part.
TiesPoppedByCostThenCell ==
    [][a_run' # a_run
         => LET top == a_run'.popped
            IN  \A d \in a_run.locals.open_set :
                   /\ top[1] <= d[1]
                   /\ top[1] = d[1] => top[2] <= d[2]
                   /\ (top[1] = d[1] /\ top[2] = d[2])
                         => \/ top[3][1] < d[3][1]
                            \/ top[3][1] = d[3][1] /\ top[3][2] <= d[3][2]]_vars

\* An entry was popped while an entry with the same f that had been pushed
\* before it was still in the open set.
LaterPushedTiePoppedSeen ==
    /\ a_run.popped # None
    /\ \E d \in a_run.locals.open_set :
          /\ d[1] = a_run.popped[1]
          /\ \E i, j \in 1 .. Len(a_run.pushed) :
                i < j /\ a_run.pushed[i] = d /\ a_run.pushed[j] = a_run.popped

\* The came_from chain never holds the start and leads to cells of strictly
\* lower g_score, so a walk along it cannot come back to a cell.
ChainLeadsDownToStart ==
    /\ s_start \notin DOMAIN a_run.locals.came_from
    /\ \A c \in DOMAIN a_run.locals.came_from :
          /\ a_run.locals.came_from[c] \in DOMAIN a_run.locals.g_score
          /\ a_run.locals.g_score[a_run.locals.came_from[c]]
                < a_run.locals.g_score[c]

\* Every entry pushed in a step is for a cell without a g_score or has a g
\* strictly lower than the cell's g_score before the step.
PushesLowerG ==
    \A i \in Len(a_run.pushed) + 1 .. Len(a_run'.pushed) :
       LET e == a_run'.pushed[i]
       IN  \/ e[3] \notin DOMAIN a_run.locals.g_score
           \/ e[2] < a_run.locals.g_score[e[3]]

\* C16: every call of a_star terminates: a push requires a strictly lower
\* g_score for its cell, and the came_from chain reconstruct_path walks
\* never contains the start and has no cycle.
AStarTerminates ==
    /\ <>(s_pc = "returned")
    /\ []ChainLeadsDownToStart
    /\ [][PushesLowerG]_vars

\* a_star has returned a path of two cells or more after at least three
\* pushes, with a cell whose predecessor is not the start.
ReturnedAfterExpansionsSeen ==
    /\ s_pc = "returned"
    /\ Len(s_result.path) >= 2
    /\ Len(a_run.pushed) >= 3
    /\ \E c \in DOMAIN a_run.locals.came_from :
          a_run.locals.came_from[c] # s_start

\* C18: in the gesture loop, when the cooldown has elapsed and the detected
\* hand is a fist (fingers = [0, 0, 0, 0, 0]), player.stop() is invoked and
\* is_playing becomes False.
FistStopsPlayback ==
    (hand.running /\ hand.fingers = <<0, 0, 0, 0, 0>> /\ hand.elapsed)
        => (hand.invoked = "stop" /\ ~player.is_playing)

====
